---------------------------- MODULE Spec2Model ----------------------------
(***************************************************************************)
(* Model of the soc-usecase-factory batch tools:                           *)
(*   tools/compute_coverage_from_scaffold.py  (coverage aggregator)        *)
(*   tools/generate_schemas_from_devices.py   (categorize)                 *)
(*   tools/seed_mapping_scaffold.py           (guess_platform)             *)
(*   tools/build_attack_techniques.py         (technique catalog builder)  *)
(*                                                                         *)
(* Text is modelled as a sequence of code points, so that lower(),         *)
(* startswith(), "in", split(), sorted() and join() are computed the way   *)
(* Python computes them.  A missing CSV cell / missing key (Python None)   *)
(* is the reserved value None, which is no text.                           *)
(***************************************************************************)
EXTENDS Integers, Sequences, FiniteSets, TLC

VARIABLES
    \* ---- coverage aggregator ----
    scaffold,       \* rows of mapping_scaffold.csv as read by csv.DictReader
    agg_pc,         \* "input" while the scaffold is being curated, "exited" after main()
    agg_exit,       \* process exit code of the aggregator
    agg_warned,     \* the "[WARN] No validated mappings found" line was printed
    by_tid,         \* technique -> set of sourcetypes (overall map)
    by_tid_plat,    \* platform -> technique -> set of sourcetypes
    agg_written,    \* which of "matrix", "overall" have been written
    matrix,         \* rows of coverage_matrix.csv
    layer_overall,  \* coverage_overall.layer.json
    layers_plat     \* platform -> coverage_<platform>.layer.json (written ones)

VARIABLES
    \* ---- source categorizers ----
    ident,          \* the sourcetype identifier handed to the categorizers
    nfrags,         \* number of fragments the identifier was put together from
    cat_pc,         \* "input" while the identifier is being typed, then "classified"
    category,       \* result of categorize(ident), None before the call
    platform_guess  \* result of guess_platform(ident), None before the call

VARIABLES
    \* ---- technique catalog builder ----
    stix_src,       \* "json" if enterprise-attack.json parses, "garbage" if not
    objs,           \* stix["objects"]
    build_pc,       \* "input" while the dump is being put together, then "exited"
    build_exit,     \* process exit code of the builder
    build_written,  \* which of "master", "techniques", "tactics", "meta" are written
    master_rows,    \* rows of attack_techniques_master.csv
    lookup_rows,    \* rows of lookups/mitre_techniques.csv
    tactic_rows,    \* rows of lookups/mitre_tactic_order.csv
    meta_objects    \* "objects" of attack_metadata.json

VARIABLES
    \* ---- file names derived from a sourcetype ----
    nm_ident,       \* the sourcetype the names are derived from
    nm_parts,       \* number of parts the sourcetype was put together from
    nm_pc,          \* "input" while the sourcetype is being typed, then "named"
    yaml_name,      \* filename_for_sourcetype(nm_ident), None before the call
    sample_written, \* sanitize_filename(nm_ident): the name the splitter writes
    sample_lookup   \* sanitize(nm_ident) + ".csv": the name the scaffold builder looks up

VARIABLES
    \* ---- schema generator and inventory validator ----
    dev_file,        \* devices.csv: "ok", "unreadable" or "nocolumn" (no sourcetype column)
    dev_sourcetypes, \* the sourcetype column of devices.csv, one cell per row
    gen_pc,          \* "input" while devices.csv is being written, then "exited"
    gen_exit,        \* exit code of generate_schemas_from_devices.py
    gen_files,       \* schema files written, as <<category, file name>>
    val_pc,          \* "input", then "exited" once validate_inventory.py has run
    val_exit,        \* exit code of validate_inventory.py
    val_result       \* "PASS" or "FAIL" as printed, "" before the run

VARIABLES
    \* ---- per-sourcetype scaffold builder ----
    devices,        \* rows of inventory/devices.csv: [sourcetype, index]
    auto_hints,     \* the --auto-hints flag
    samples_dir,    \* names of the files in inventory/samples
    seed_pc,        \* "input", then "exited" once seed_mapping_scaffold.py has run
    seed_exit,      \* exit code of seed_mapping_scaffold.py
    seed_rows       \* out_rows as written to mapping_scaffold.csv

aggVars == <<scaffold, agg_pc, agg_exit, agg_warned, by_tid, by_tid_plat,
             agg_written, matrix, layer_overall, layers_plat>>

catVars == <<ident, nfrags, cat_pc, category, platform_guess>>

buildVars == <<stix_src, objs, build_pc, build_exit, build_written,
               master_rows, lookup_rows, tactic_rows, meta_objects>>

nameVars == <<nm_ident, nm_parts, nm_pc, yaml_name, sample_written, sample_lookup>>

genVars == <<dev_file, dev_sourcetypes, gen_pc, gen_exit, gen_files,
             val_pc, val_exit, val_result>>

seedVars == <<devices, auto_hints, samples_dir, seed_pc, seed_exit, seed_rows>>

vars == <<aggVars, catVars, buildVars, nameVars, genVars, seedVars>>

-----------------------------------------------------------------------------
(* Bounds of the model *)

\* number of rows of the curated scaffold
MaxRows == 2

\* number of fragments a sourcetype identifier is put together from
MaxFrags == 2

\* number of objects of the STIX dump
MaxObjs == 2

-----------------------------------------------------------------------------
(* Text *)

None == <<-1>>

\* Python truthiness of a cell: neither None nor the empty string
Truthy(x) == x # None /\ x # <<>>

\* str.lower() on the ASCII range
Lower(s) == [i \in 1..Len(s) |-> IF s[i] \in 65..90 THEN s[i] + 32 ELSE s[i]]

\* str.startswith(p)
StartsWith(s, p) == Len(p) <= Len(s) /\ SubSeq(s, 1, Len(p)) = p

\* p in s
Contains(s, p) == \E i \in 0..(Len(s) - Len(p)) : SubSeq(s, i + 1, i + Len(p)) = p

\* a < b for Python str: lexicographic by code point
StrLess(a, b) ==
    \E k \in 1..Len(b) :
        /\ \A j \in 1..(k - 1) : j <= Len(a) /\ a[j] = b[j]
        /\ (k > Len(a) \/ a[k] < b[k])

\* sorted(S) for a set of distinct strings
RECURSIVE SortedStrings(_)
SortedStrings(S) ==
    IF S = {} THEN <<>>
    ELSE LET m == CHOOSE x \in S : \A y \in S \ {x} : StrLess(x, y)
         IN  <<m>> \o SortedStrings(S \ {m})

\* sep.join(seq)
RECURSIVE Join(_, _)
Join(sep, seq) ==
    IF seq = <<>> THEN <<>>
    ELSE IF Len(seq) = 1 THEN seq[1]
    ELSE seq[1] \o sep \o Join(sep, Tail(seq))

\* str.split(sep)
RECURSIVE Split(_, _)
Split(s, sep) ==
    IF Contains(s, sep)
    THEN LET i == CHOOSE k \in 0..(Len(s) - Len(sep)) :
                      /\ SubSeq(s, k + 1, k + Len(sep)) = sep
                      /\ \A j \in 0..(k - 1) : SubSeq(s, j + 1, j + Len(sep)) # sep
         IN  <<SubSeq(s, 1, i)>> \o Split(SubSeq(s, i + Len(sep) + 1, Len(s)), sep)
    ELSE <<s>>

S_validated == <<118, 97, 108, 105, 100, 97, 116, 101, 100>>   \* "validated"
S_ready     == <<114, 101, 97, 100, 121>>                      \* "ready"
S_done      == <<100, 111, 110, 101>>                          \* "done"
S_windows   == <<119, 105, 110, 100, 111, 119, 115>>           \* "windows"
S_network   == <<110, 101, 116, 119, 111, 114, 107>>           \* "network"
S_cloud     == <<99, 108, 111, 117, 100>>                      \* "cloud"
S_saas      == <<115, 97, 97, 115>>                            \* "saas"
S_edr       == <<101, 100, 114>>                               \* "edr"
S_linux     == <<108, 105, 110, 117, 120>>                     \* "linux"
S_other     == <<111, 116, 104, 101, 114>>                     \* "other"
S_comma     == <<44>>                                          \* ","
S_commasp   == <<44, 32>>                                      \* ", "
S_T1059     == <<84, 49, 48, 53, 57>>                          \* "T1059"
S_T1078     == <<84, 49, 48, 55, 56>>                          \* "T1078"

-----------------------------------------------------------------------------
(* Coverage aggregator: tools/compute_coverage_from_scaffold.py *)

PLATFORMS == <<S_windows, S_network, S_cloud, S_saas, S_edr, S_linux, S_other>>

PlatformSet == {PLATFORMS[i] : i \in DOMAIN PLATFORMS}

\* the statuses main() counts as curated
AcceptedStatuses == {S_validated, S_ready, S_done}

\* content of layer_overall while the file does not exist
NoLayer == [techniques |-> <<>>, maxValue |-> 0]

\* attack_techniques_master.csv as the dict main() builds from it; T1059 is
\* left out so that attack.get(tid, {}) also takes its default
attack ==
    [t \in {S_T1078} |->
        [technique_name |-> <<86, 97, 108, 105, 100>>,              \* "Valid"
         tactics_csv    |-> <<105, 110, 105, 116>>]]                \* "init"

\* ---- inputs: the cells a curator can leave in a scaffold row ----
TechniqueCells == {S_T1059, S_T1078}
SourcetypeCells == {<<65>>, <<66>>, <<97>>}                         \* "A", "B", "a"
PlatformCells == {None, <<87, 105, 110, 100, 111, 119, 115>>,      \* "Windows"
                  <<98, 111, 103, 117, 115>>}                      \* "bogus"
StatusCells == {<<86, 97, 108, 105, 100, 97, 116, 101, 100>>,      \* "Validated"
                <<99, 97, 110, 100, 105, 100, 97, 116, 101>>}      \* "candidate"

\* rows that name a technique and carry a status
TechniqueRows ==
    [technique_id : TechniqueCells, sourcetype : SourcetypeCells,
     platform : PlatformCells, status : StatusCells]

\* rows as the scaffold builder leaves them (technique blank), one of them
\* with its status already set to an accepted value
BlankRows ==
    [technique_id : {<<>>}, sourcetype : {<<65>>}, platform : {S_edr},
     status : {<<99, 97, 110, 100, 105, 100, 97, 116, 101>>, S_ready}]

\* rows cut short before the status column (DictReader fills None), and rows
\* whose status is the upper-case "DONE" or the empty string
OddRows ==
    [technique_id : {<<>>, S_T1078}, sourcetype : {<<65>>},
     platform : {<<>>}, status : {None, <<68, 79, 78, 69>>, <<>>}]

ScaffoldRows == TechniqueRows \cup BlankRows \cup OddRows

\* r.get("status","").lower() raises AttributeError on a None cell; the
\* "and" evaluates it only when technique_id is truthy
StatusLookupRaises(r) == Truthy(r.technique_id) /\ r.status = None

\* variant: any non-blank status counts as curated
IsCurated_AnyStatus(r) ==
    /\ Truthy(r.technique_id)
    /\ Truthy(r.status)

\* the filter of the list comprehension "curated"
IsCurated(r) ==
    /\ Truthy(r.technique_id)
    /\ Lower(r.status) \in AcceptedStatuses

\* defaultdict(set): m[tid].add(st)
SetAdd(m, tid, st) ==
    [t \in (DOMAIN m) \cup {tid} |->
        IF t = tid
        THEN (IF tid \in DOMAIN m THEN m[tid] ELSE {}) \cup {st}
        ELSE m[t]]

\* variant: the platform cell is looked up without .lower()
RowPlatform_NoLower(r) ==
    LET plat == IF Truthy(r.platform) THEN r.platform ELSE S_other
    IN  IF plat \in PlatformSet THEN plat ELSE S_other

\* plat = (r.get("platform") or "other").lower(); unknown -> "other"
RowPlatform(r) ==
    LET plat == Lower(IF Truthy(r.platform) THEN r.platform ELSE S_other)
    IN  IF plat \in PlatformSet THEN plat ELSE S_other

EmptyMaps ==
    [all  |-> [t \in {} |-> {}],
     plat |-> [p \in PlatformSet |-> [t \in {} |-> {}]]]

\* the loop "for r in curated", from row k on
RECURSIVE Accumulate(_, _, _)
Accumulate(curated, k, maps) ==
    IF k > Len(curated) THEN maps
    ELSE LET r    == curated[k]
             tid  == r.technique_id
             st   == r.sourcetype
             plat == RowPlatform(r)
         IN  Accumulate(curated, k + 1,
                 [all  |-> SetAdd(maps.all, tid, st),
                  plat |-> [maps.plat EXCEPT ![plat] = SetAdd(@, tid, st)]])

\* variant: sourcetypes are counted after case folding
MatrixRow_CaseFolded(tid, sts) ==
    [technique_id      |-> tid,
     technique_name    |-> IF tid \in DOMAIN attack THEN attack[tid].technique_name ELSE <<>>,
     tactics           |-> IF tid \in DOMAIN attack THEN attack[tid].tactics_csv ELSE <<>>,
     count_sourcetypes |-> Cardinality({Lower(st) : st \in sts}),
     sourcetypes_csv   |-> Join(S_comma, SortedStrings(sts))]

\* one row of coverage_matrix.csv
MatrixRow(tid, sts) ==
    [technique_id      |-> tid,
     technique_name    |-> IF tid \in DOMAIN attack THEN attack[tid].technique_name ELSE <<>>,
     tactics           |-> IF tid \in DOMAIN attack THEN attack[tid].tactics_csv ELSE <<>>,
     count_sourcetypes |-> Cardinality(sts),
     sourcetypes_csv   |-> Join(S_comma, SortedStrings(sts))]

\* rows = [... for tid, sts in sorted(by_tid.items())]
MatrixRows(cov) ==
    LET tids == SortedStrings(DOMAIN cov)
    IN  [i \in 1..Len(tids) |-> MatrixRow(tids[i], cov[tids[i]])]

\* variant: max(xs or [0])
MaxOrZero(xs) == IF xs = {} THEN 0 ELSE CHOOSE m \in xs : \A x \in xs : x <= m

\* max(xs or [1])
MaxOrOne(xs) == IF xs = {} THEN 1 ELSE CHOOSE m \in xs : \A x \in xs : x <= m

\* variant: the score only flags that the technique is covered
Layer_FlagScore(cov) ==
    LET tids == SortedStrings(DOMAIN cov)
    IN  [techniques |-> [i \in 1..Len(tids) |->
                            [techniqueID |-> tids[i],
                             score       |-> 1,
                             comment     |-> Join(S_commasp, SortedStrings(cov[tids[i]]))]],
         maxValue   |-> MaxOrOne({Cardinality(cov[t]) : t \in DOMAIN cov})]

\* the layer document of build_layers / build_layers_per_platform
Layer(cov) ==
    LET tids == SortedStrings(DOMAIN cov)
    IN  [techniques |-> [i \in 1..Len(tids) |->
                            [techniqueID |-> tids[i],
                             score       |-> Cardinality(cov[tids[i]]),
                             comment     |-> Join(S_commasp, SortedStrings(cov[tids[i]]))]],
         maxValue   |-> MaxOrOne({Cardinality(cov[t]) : t \in DOMAIN cov})]

build_layers(cov) == Layer(cov)

build_layers_per_platform(cov_by_plat) ==
    [p \in DOMAIN cov_by_plat |-> Layer(cov_by_plat[p])]

\* the aggregator before it is started, with "input" or "idle" as pc
AggStart(pc) ==
    /\ scaffold = <<>>
    /\ agg_pc = pc
    /\ agg_exit = 0
    /\ agg_warned = FALSE
    /\ by_tid = EmptyMaps.all
    /\ by_tid_plat = EmptyMaps.plat
    /\ agg_written = {}
    /\ matrix = <<>>
    /\ layer_overall = NoLayer
    /\ layers_plat = [p \in {} |-> NoLayer]

\* the categorizers before they are called, with "input" or "idle" as pc
CatStart(pc) ==
    /\ ident = <<>>
    /\ nfrags = 0
    /\ cat_pc = pc
    /\ category = None
    /\ platform_guess = None

\* the catalog builder before it is started, with "input" or "idle" as pc
BuildStart(pc) ==
    /\ stix_src \in (IF pc = "input" THEN {"json", "garbage"} ELSE {"json"})
    /\ objs = <<>>
    /\ build_pc = pc
    /\ build_exit = 0
    /\ build_written = {}
    /\ master_rows = <<>>
    /\ lookup_rows = <<>>
    /\ tactic_rows = <<>>
    /\ meta_objects = 0

\* the name derivations before they are called, with "input" or "idle" as pc
NameStart(pc) ==
    /\ nm_ident = <<>>
    /\ nm_parts = 0
    /\ nm_pc = pc
    /\ yaml_name = None
    /\ sample_written = None
    /\ sample_lookup = None

\* the schema generator and the validator before they are started
GenStart(pc) ==
    /\ dev_file \in (IF pc = "input" THEN {"ok", "unreadable", "nocolumn"} ELSE {"ok"})
    /\ dev_sourcetypes = <<>>
    /\ gen_pc = pc
    /\ gen_exit = 0
    /\ gen_files = {}
    /\ val_pc = pc
    /\ val_exit = 0
    /\ val_result = ""

\* inventory/samples: empty, or as all_samples.py leaves it after splitting
\* an all.csv with the sourcetypes "a" and "cisco:asa"
SampleDirs == { {}, {<<97, 46, 99, 115, 118>>, <<99, 105, 95, 99, 111, 95, 97, 95, 97, 46, 99, 115, 118>>} }

\* the scaffold builder before it is started
SeedStart(pc) ==
    /\ devices = <<>>
    /\ auto_hints \in (IF pc = "input" THEN BOOLEAN ELSE {FALSE})
    /\ samples_dir \in (IF pc = "input" THEN SampleDirs ELSE {{}})
    /\ seed_pc = pc
    /\ seed_exit = 0
    /\ seed_rows = <<>>

\* the tools that a specification leaves alone
OthersIdle(tools) ==
    /\ "agg" \in tools => AggStart("idle")
    /\ "cat" \in tools => CatStart("idle")
    /\ "build" \in tools => BuildStart("idle")
    /\ "name" \in tools => NameStart("idle")
    /\ "gen" \in tools => GenStart("idle")
    /\ "seed" \in tools => SeedStart("idle")

AggInit == AggStart("input") /\ OthersIdle({"cat", "build", "name", "gen", "seed"})

\* the curator (external) leaves one more row in mapping_scaffold.csv
CurateRow ==
    /\ agg_pc = "input"
    /\ Len(scaffold) < MaxRows
    /\ \E r \in ScaffoldRows : scaffold' = Append(scaffold, r)
    /\ UNCHANGED <<agg_pc, agg_exit, agg_warned, by_tid, by_tid_plat,
                   agg_written, matrix, layer_overall, layers_plat>>
    /\ UNCHANGED <<catVars, buildVars, nameVars, genVars, seedVars>>

\* main() of the aggregator, from read_csv to the last layer file
AggregatorMain ==
    /\ agg_pc = "input"
    /\ agg_pc' = "exited"
    /\ UNCHANGED scaffold
    /\ UNCHANGED <<catVars, buildVars, nameVars, genVars, seedVars>>
    /\ IF scaffold = <<>>
       THEN \* "[ERROR] Empty scaffold"; sys.exit(2)
            /\ agg_exit' = 2
            /\ UNCHANGED <<agg_warned, by_tid, by_tid_plat, agg_written,
                           matrix, layer_overall, layers_plat>>
       ELSE IF \E i \in DOMAIN scaffold : StatusLookupRaises(scaffold[i])
       THEN \* uncaught AttributeError: traceback, exit status 1
            /\ agg_exit' = 1
            /\ UNCHANGED <<agg_warned, by_tid, by_tid_plat, agg_written,
                           matrix, layer_overall, layers_plat>>
       ELSE LET curated == SelectSeq(scaffold, IsCurated)
                maps    == Accumulate(curated, 1, EmptyMaps)
            IN  /\ agg_warned' = (curated = <<>>)
                /\ by_tid' = maps.all
                /\ by_tid_plat' = maps.plat
                /\ agg_written' = {"matrix", "overall"}
                /\ matrix' = MatrixRows(maps.all)
                /\ layer_overall' = build_layers(maps.all)
                /\ layers_plat' = build_layers_per_platform(maps.plat)
                /\ agg_exit' = 0

AggNext == CurateRow \/ AggregatorMain

SpecAgg == AggInit /\ [][AggNext]_vars

-----------------------------------------------------------------------------
(* Source categorizers: categorize (generate_schemas_from_devices.py) and   *)
(* guess_platform (seed_mapping_scaffold.py)                                 *)

P_aws_cloudtrail   == <<97, 119, 115, 58, 99, 108, 111, 117, 100, 116, 114, 97, 105, 108>>  \* "aws:cloudtrail"
P_aws              == <<97, 119, 115, 58>>                                                  \* "aws:"
P_ms_o365          == <<109, 115, 58, 111, 51, 54, 53>>                                     \* "ms:o365"
P_o365             == <<111, 51, 54, 53>>                                                   \* "o365"
P_ms_aad           == <<109, 115, 58, 97, 97, 100>>                                         \* "ms:aad"
P_cisco_asa        == <<99, 105, 115, 99, 111, 58, 97, 115, 97>>                            \* "cisco:asa"
P_cisco            == <<99, 105, 115, 99, 111, 58>>                                         \* "cisco:"
P_stream           == <<115, 116, 114, 101, 97, 109, 58>>                                   \* "stream:"
P_bro              == <<98, 114, 111, 58>>                                                  \* "bro:"
P_zeek             == <<122, 101, 101, 107, 58>>                                            \* "zeek:"
P_symantec_ep      == <<115, 121, 109, 97, 110, 116, 101, 99, 58, 101, 112>>                \* "symantec:ep"
P_osquery          == <<111, 115, 113, 117, 101, 114, 121>>                                 \* "osquery"
P_unix             == <<117, 110, 105, 120, 58>>                                            \* "unix:"
P_linux_           == <<108, 105, 110, 117, 120, 95>>                                       \* "linux_"
P_linux            == <<108, 105, 110, 117, 120>>                                           \* "linux"
P_wineventlog      == <<119, 105, 110, 101, 118, 101, 110, 116, 108, 111, 103>>             \* "wineventlog"
P_xmlwineventlog   == <<120, 109, 108, 119, 105, 110, 101, 118, 101, 110, 116, 108, 111, 103>>  \* "xmlwineventlog"
P_perfmon          == <<112, 101, 114, 102, 109, 111, 110>>                                 \* "perfmon"
P_script           == <<115, 99, 114, 105, 112, 116, 58>>                                   \* "script:"

\* variant: the windows prefixes are tested before every other rule
categorize_WindowsFirst(sourcetype) ==
    LET st == Lower(sourcetype)
    IN  IF StartsWith(st, P_wineventlog) \/ StartsWith(st, P_xmlwineventlog)
              \/ StartsWith(st, P_script) \/ StartsWith(st, P_perfmon)
        THEN S_windows
        ELSE IF StartsWith(st, P_aws_cloudtrail)
        THEN S_cloud
        ELSE IF StartsWith(st, P_ms_o365) \/ Contains(st, P_o365) \/ StartsWith(st, P_ms_aad)
        THEN S_saas
        ELSE IF StartsWith(st, P_cisco_asa) \/ StartsWith(st, P_stream)
        THEN S_network
        ELSE IF StartsWith(st, P_symantec_ep) \/ StartsWith(st, P_osquery)
        THEN S_edr
        ELSE IF StartsWith(st, P_unix) \/ StartsWith(st, P_linux_)
                  \/ (Contains(st, P_linux) /\ ~Contains(st, P_wineventlog))
        THEN S_linux
        ELSE S_other

\* categorize() of generate_schemas_from_devices.py
categorize(sourcetype) ==
    LET st == Lower(sourcetype)
    IN  IF StartsWith(st, P_aws_cloudtrail)
        THEN S_cloud
        ELSE IF StartsWith(st, P_ms_o365) \/ Contains(st, P_o365) \/ StartsWith(st, P_ms_aad)
        THEN S_saas
        ELSE IF StartsWith(st, P_cisco_asa) \/ StartsWith(st, P_stream)
        THEN S_network
        ELSE IF StartsWith(st, P_symantec_ep) \/ StartsWith(st, P_osquery)
        THEN S_edr
        ELSE IF StartsWith(st, P_unix) \/ StartsWith(st, P_linux_)
                  \/ (Contains(st, P_linux) /\ ~Contains(st, P_wineventlog))
        THEN S_linux
        ELSE IF StartsWith(st, P_wineventlog) \/ StartsWith(st, P_xmlwineventlog)
                  \/ StartsWith(st, P_script) \/ StartsWith(st, P_perfmon)
        THEN S_windows
        ELSE S_other

\* guess_platform() of seed_mapping_scaffold.py
guess_platform(sourcetype) ==
    LET st == Lower(sourcetype)
    IN  IF StartsWith(st, P_wineventlog) \/ StartsWith(st, P_xmlwineventlog)
              \/ StartsWith(st, P_perfmon) \/ StartsWith(st, P_script)
        THEN S_windows
        ELSE IF StartsWith(st, P_aws)
        THEN S_cloud
        ELSE IF StartsWith(st, P_ms_o365) \/ StartsWith(st, P_ms_aad) \/ Contains(st, P_o365)
        THEN S_saas
        ELSE IF StartsWith(st, P_cisco) \/ StartsWith(st, P_stream)
                  \/ StartsWith(st, P_bro) \/ StartsWith(st, P_zeek)
        THEN S_network
        ELSE IF StartsWith(st, P_symantec_ep) \/ StartsWith(st, P_osquery)
        THEN S_edr
        ELSE IF StartsWith(st, P_unix) \/ StartsWith(st, P_linux_)
                  \/ (Contains(st, P_linux) /\ ~Contains(st, P_wineventlog))
        THEN S_linux
        ELSE S_other

\* ---- inputs: the pieces a sourcetype identifier is put together from ----
Fragments ==
    {P_aws_cloudtrail, P_aws, P_ms_o365, P_o365, P_ms_aad, P_cisco_asa, P_cisco,
     P_stream, P_bro, P_zeek, P_symantec_ep, P_osquery, P_unix, P_linux_, P_linux,
     P_script,
     <<87, 105, 110, 69, 118, 101, 110, 116, 76, 111, 103, 58>>,                \* "WinEventLog:"
     <<88, 109, 108, 87, 105, 110, 69, 118, 101, 110, 116, 76, 111, 103, 58>>,  \* "XmlWinEventLog:"
     <<80, 101, 114, 102, 109, 111, 110>>,                                      \* "Perfmon"
     <<120>>}                                                                   \* "x"

CatInit == CatStart("input") /\ OthersIdle({"agg", "build", "name", "gen", "seed"})

\* one more fragment of the identifier is typed
AppendFragment ==
    /\ cat_pc = "input"
    /\ nfrags < MaxFrags
    /\ \E f \in Fragments : ident' = ident \o f
    /\ nfrags' = nfrags + 1
    /\ UNCHANGED <<cat_pc, category, platform_guess>>
    /\ UNCHANGED <<aggVars, buildVars, nameVars, genVars, seedVars>>

\* the schema generator calls categorize(st)
Categorize ==
    /\ cat_pc \in {"input", "classified"}
    /\ category = None
    /\ category' = categorize(ident)
    /\ cat_pc' = "classified"
    /\ UNCHANGED <<ident, nfrags, platform_guess>>
    /\ UNCHANGED <<aggVars, buildVars, nameVars, genVars, seedVars>>

\* the scaffold builder calls guess_platform(st)
GuessPlatform ==
    /\ cat_pc \in {"input", "classified"}
    /\ platform_guess = None
    /\ platform_guess' = guess_platform(ident)
    /\ cat_pc' = "classified"
    /\ UNCHANGED <<ident, nfrags, category>>
    /\ UNCHANGED <<aggVars, buildVars, nameVars, genVars, seedVars>>

CatNext == AppendFragment \/ Categorize \/ GuessPlatform

SpecCat == CatInit /\ [][CatNext]_vars

-----------------------------------------------------------------------------
(* Technique catalog builder: tools/build_attack_techniques.py *)

S_dot == <<46>>                                                    \* "."
S_T   == <<84>>                                                    \* "T"
S_T1059_001 == <<84, 49, 48, 53, 57, 46, 48, 48, 49>>              \* "T1059.001"
S_TA0001    == <<84, 65, 48, 48, 48, 49>>                          \* "TA0001"
S_T1059_1_2 == <<84, 49, 48, 53, 57, 46, 49, 46, 50>>              \* "T1059.1.2"
S_S0001     == <<83, 48, 48, 48, 49>>                              \* "S0001"
S_true      == <<116, 114, 117, 101>>                              \* "true"
S_false     == <<102, 97, 108, 115, 101>>                          \* "false"
S_execution == <<101, 120, 101, 99, 117, 116, 105, 111, 110>>      \* "execution"
S_persistence == <<112, 101, 114, 115, 105, 115, 116, 101, 110, 99, 101>>  \* "persistence"
N_InitialAccess == <<73, 110, 105, 116, 105, 97, 108, 32, 65, 99, 99, 101, 115, 115>>  \* "Initial Access"
N_Execution == <<69, 120, 101, 99, 117, 116, 105, 111, 110>>       \* "Execution"
N_Technique == <<83, 99, 114, 105, 112, 116, 105, 110, 103>>       \* "Scripting"

\* str.replace(" ", "-")
SpacesToDashes(s) == [i \in 1..Len(s) |-> IF s[i] = 32 THEN 45 ELSE s[i]]

\* sorted(list) of strings, duplicates kept
RECURSIVE SortedList(_)
SortedList(seq) ==
    IF seq = <<>> THEN <<>>
    ELSE LET rest == SortedList(SubSeq(seq, 1, Len(seq) - 1))
             x    == seq[Len(seq)]
             n    == Cardinality({i \in DOMAIN rest : ~StrLess(x, rest[i])})
         IN  SubSeq(rest, 1, n) \o <<x>> \o SubSeq(rest, n + 1, Len(rest))

\* ---- inputs: the objects of the dump ----
Ref(source, id) == [source_name |-> source, external_id |-> id]

RefLists ==
    {<<>>,
     <<Ref("mitre-attack", S_T1059)>>,
     <<Ref("mitre-attack", S_T1059_001)>>,
     <<Ref("capec", <<67, 65, 80, 69, 67, 45, 49>>), Ref("mitre-attack", S_T1078)>>,
     <<Ref("mitre-attack", <<>>), Ref("mitre-attack", S_TA0001)>>,
     <<Ref("mitre-attack", S_T1059_1_2)>>,
     <<Ref("mitre-attack", S_S0001)>>}

Phase(chain, name) == [kill_chain_name |-> chain, phase_name |-> name]

TechniquePhases ==
    <<Phase("mitre-attack", S_persistence), Phase("lockheed", S_done),
      Phase("mitre-attack", S_execution), Phase("mitre-attack", S_persistence),
      Phase("mitre-attack", <<>>)>>

TechniquePlatforms ==
    <<<<87, 105, 110, 100, 111, 119, 115>>, <<76, 105, 110, 117, 120>>>>   \* "Windows", "Linux"

AttackPatternObjs ==
    [type : {"attack-pattern"},
     revoked : BOOLEAN, x_mitre_deprecated : BOOLEAN,
     external_references : RefLists,
     name : {N_Technique}, x_mitre_shortname : {None},
     kill_chain_phases : {TechniquePhases},
     x_mitre_platforms : {TechniquePlatforms}]

TacticObjs ==
    [type : {"x-mitre-tactic"},
     revoked : {FALSE}, x_mitre_deprecated : BOOLEAN,
     external_references : {<<Ref("mitre-attack", S_TA0001)>>},
     name : {N_InitialAccess, N_Execution}, x_mitre_shortname : {None, S_execution},
     kill_chain_phases : {<<>>},
     x_mitre_platforms : {<<>>}]

OtherObjs ==
    [type : {"malware"},
     revoked : {FALSE}, x_mitre_deprecated : {FALSE},
     external_references : {<<Ref("mitre-attack", S_S0001)>>},
     name : {N_Execution}, x_mitre_shortname : {None},
     kill_chain_phases : {<<>>},
     x_mitre_platforms : {<<>>}]

\* a revoked and deprecated technique behaves as a revoked one
StixObjects ==
    {o \in AttackPatternObjs : ~(o.revoked /\ o.x_mitre_deprecated)}
        \cup {o \in TacticObjs : o.x_mitre_shortname = None \/ o.name = N_Execution}
        \cup OtherObjs

\* external_id(obj, source_name), from reference k on
RECURSIVE external_id_from(_, _, _)
external_id_from(refs, source_name, k) ==
    IF k > Len(refs) THEN None
    ELSE IF refs[k].source_name = source_name /\ Truthy(refs[k].external_id)
    THEN refs[k].external_id
    ELSE external_id_from(refs, source_name, k + 1)

external_id(obj, source_name) ==
    external_id_from(obj.external_references, source_name, 1)

\* the (tactic_id, tactic_name) pair main() records for a tactic object
TacticPair(o) ==
    <<IF Truthy(o.x_mitre_shortname)
      THEN o.x_mitre_shortname
      ELSE SpacesToDashes(Lower(o.name)),
      o.name>>

\* (a, b) < (c, d) for tuples of strings
PairLess(x, y) == StrLess(x[1], y[1]) \/ (x[1] = y[1] /\ StrLess(x[2], y[2]))

\* sorted(S) for a set of (tactic_id, tactic_name) pairs
RECURSIVE SortedPairs(_)
SortedPairs(S) ==
    IF S = {} THEN <<>>
    ELSE LET m == CHOOSE x \in S : \A y \in S \ {x} : PairLess(x, y)
         IN  <<m>> \o SortedPairs(S \ {m})

\* the tactic order table: distinct pairs, sorted, ranked from 0
TacticTable(objects) ==
    LET pairs  == {TacticPair(objects[i]) :
                      i \in {k \in DOMAIN objects : objects[k].type = "x-mitre-tactic"}}
        sorted == SortedPairs(pairs)
    IN  [i \in 1..Len(sorted) |->
            [tactic_id |-> sorted[i][1], tactic_name |-> sorted[i][2], order |-> i - 1]]

\* the tests that let an object into the technique rows
IsTechnique(o) ==
    /\ o.type = "attack-pattern"
    /\ ~(o.revoked \/ o.x_mitre_deprecated)
    /\ LET tid == external_id(o, "mitre-attack")
       IN  Truthy(tid) /\ StartsWith(tid, S_T)

\* the row main() appends for an accepted attack-pattern object
TechniqueRow(o) ==
    LET tid    == external_id(o, "mitre-attack")
        is_sub == Contains(tid, S_dot)
        phases == {o.kill_chain_phases[i].phase_name :
                      i \in {k \in DOMAIN o.kill_chain_phases :
                                /\ o.kill_chain_phases[k].kill_chain_name = "mitre-attack"
                                /\ Truthy(o.kill_chain_phases[k].phase_name)}}
    IN  [technique_id        |-> tid,
         technique_name      |-> o.name,
         is_subtechnique     |-> IF is_sub THEN S_true ELSE S_false,
         parent_technique_id |-> IF is_sub THEN Split(tid, S_dot)[1] ELSE <<>>,
         tactics_csv         |-> Join(S_comma, SortedStrings(phases)),
         platforms_csv       |-> Join(S_comma, SortedList(o.x_mitre_platforms))]

\* the sort key of rows.sort
RowKey(r) == <<Split(r.technique_id, S_dot)[1], r.technique_id>>

\* list.sort(key=...): stable
RECURSIVE SortRows(_)
SortRows(rows) ==
    IF rows = <<>> THEN <<>>
    ELSE LET rest == SortRows(SubSeq(rows, 1, Len(rows) - 1))
             x    == rows[Len(rows)]
             n    == Cardinality({i \in DOMAIN rest : ~PairLess(RowKey(x), RowKey(rest[i]))})
         IN  SubSeq(rest, 1, n) \o <<x>> \o SubSeq(rest, n + 1, Len(rest))

\* rows of the master table: the loop over objs, then rows.sort
MasterRows(objects) ==
    LET accepted == SelectSeq(objects, IsTechnique)
    IN  SortRows([i \in 1..Len(accepted) |-> TechniqueRow(accepted[i])])

\* the row of lookups/mitre_techniques.csv written for a master row
LookupRow(r) ==
    [technique_id |-> r.technique_id, technique_name |-> r.technique_name,
     tactics |-> r.tactics_csv]

BuildInit == BuildStart("input") /\ OthersIdle({"agg", "cat", "name", "gen", "seed"})

\* one more object in the "objects" list of the dump
AddObject ==
    /\ build_pc = "input"
    /\ stix_src = "json"
    /\ Len(objs) < MaxObjs
    /\ \E o \in StixObjects : objs' = Append(objs, o)
    /\ UNCHANGED <<stix_src, build_pc, build_exit, build_written,
                   master_rows, lookup_rows, tactic_rows, meta_objects>>
    /\ UNCHANGED <<aggVars, catVars, nameVars, genVars, seedVars>>

\* main() of the builder, from load_stix to the metadata file
BuilderMain ==
    /\ build_pc = "input"
    /\ build_pc' = "exited"
    /\ UNCHANGED <<stix_src, objs>>
    /\ UNCHANGED <<aggVars, catVars, nameVars, genVars, seedVars>>
    /\ IF stix_src = "garbage"
       THEN \* load_stix: "[ERROR] Failed reading"; sys.exit(2)
            /\ build_exit' = 2
            /\ UNCHANGED <<build_written, master_rows, lookup_rows,
                           tactic_rows, meta_objects>>
       ELSE LET rows == MasterRows(objs)
            IN  /\ master_rows' = rows
                /\ lookup_rows' = [i \in 1..Len(rows) |-> LookupRow(rows[i])]
                /\ tactic_rows' = TacticTable(objs)
                /\ meta_objects' = Len(objs)
                /\ build_written' = {"master", "techniques", "tactics", "meta"}
                /\ build_exit' = 0

BuildNext == AddObject \/ BuilderMain

SpecBuild == BuildInit /\ [][BuildNext]_vars

-----------------------------------------------------------------------------
(* Reading the aggregator's outputs back, and the scaffold as the claims see it *)

Elems(seq) == {seq[i] : i \in DOMAIN seq}

StrictlyAscending(seq) == \A i, j \in DOMAIN seq : i < j => StrLess(seq[i], seq[j])

\* the row's status, compared case-insensitively, is validated, ready or done
StatusAccepted(r) ==
    /\ r.status # None
    /\ \E a \in {S_validated, S_ready, S_done} : Lower(r.status) = a

\* the row is curated to a technique and accepted
Accepted(r) == r.technique_id # None /\ r.technique_id # <<>> /\ StatusAccepted(r)

AcceptedRows == {i \in DOMAIN scaffold : Accepted(scaffold[i])}

\* the platform map the claim names for a row
NamedPlatform(r) ==
    IF r.platform # None /\ (\E p \in PlatformSet : Lower(r.platform) = p)
    THEN Lower(r.platform)
    ELSE S_other

AcceptedTids == {scaffold[i].technique_id : i \in AcceptedRows}

ContribOf(tid) ==
    {scaffold[i].sourcetype : i \in {k \in AcceptedRows : scaffold[k].technique_id = tid}}

ContribOfPlat(p, tid) ==
    {scaffold[i].sourcetype :
        i \in {k \in AcceptedRows : /\ scaffold[k].technique_id = tid
                                    /\ NamedPlatform(scaffold[k]) = p}}

AggDone == agg_pc = "exited"
AggOk == agg_pc = "exited" /\ agg_exit = 0

\* every layer file written by the run, overall first
WrittenLayers ==
    (IF "overall" \in agg_written THEN {layer_overall} ELSE {})
        \cup {layers_plat[p] : p \in DOMAIN layers_plat}

\* there is an accepted row that maps st to tid
Backed(tid, st) ==
    \E i \in DOMAIN scaffold :
        /\ scaffold[i].technique_id = tid
        /\ scaffold[i].sourcetype = st
        /\ StatusAccepted(scaffold[i])

-----------------------------------------------------------------------------
\* C1: a scaffold row whose status (case-insensitively) is not validated,
\* ready or done contributes to no coverage count: every sourcetype found
\* under a technique in the overall map, in a per-platform map, in the
\* coverage matrix or in a layer comes from a row with an accepted status.
C1_OnlyAcceptedContribute ==
    AggDone =>
        /\ \A tid \in DOMAIN by_tid : \A st \in by_tid[tid] : Backed(tid, st)
        /\ \A p \in DOMAIN by_tid_plat : \A tid \in DOMAIN by_tid_plat[p] :
               \A st \in by_tid_plat[p][tid] : Backed(tid, st)
        /\ "matrix" \in agg_written =>
               \A i \in DOMAIN matrix :
                   /\ \A st \in Elems(Split(matrix[i].sourcetypes_csv, S_comma)) :
                          Backed(matrix[i].technique_id, st)
                   /\ matrix[i].count_sourcetypes
                          <= Cardinality({st \in SourcetypeCells :
                                             Backed(matrix[i].technique_id, st)})
        /\ \A L \in WrittenLayers : \A i \in DOMAIN L.techniques :
               /\ \A st \in Elems(Split(L.techniques[i].comment, S_commasp)) :
                      Backed(L.techniques[i].techniqueID, st)
               /\ L.techniques[i].score
                      <= Cardinality({st \in SourcetypeCells :
                                         Backed(L.techniques[i].techniqueID, st)})

\* a completed run over a scaffold holding a "candidate" row that names a
\* technique, next to an accepted row of the same technique
C1_Witness ==
    /\ AggOk
    /\ \E i, j \in DOMAIN scaffold :
          /\ scaffold[i].technique_id = S_T1078
          /\ scaffold[i].status # None /\ ~StatusAccepted(scaffold[i])
          /\ Accepted(scaffold[j])
          /\ scaffold[j].technique_id = S_T1078
          /\ scaffold[j].sourcetype # scaffold[i].sourcetype
    /\ Len(matrix) = 1

\* C2: the coverage matrix has exactly one row per technique that has an
\* accepted row, in ascending technique order; count_sourcetypes is the
\* number of distinct sourcetype strings (verbatim) of that technique's
\* accepted rows and sourcetypes_csv is those strings sorted and comma-joined.
C2_MatrixRows ==
    AggOk =>
        /\ Len(matrix) = Cardinality(AcceptedTids)
        /\ {matrix[i].technique_id : i \in DOMAIN matrix} = AcceptedTids
        /\ \A i, j \in DOMAIN matrix :
               i < j => StrLess(matrix[i].technique_id, matrix[j].technique_id)
        /\ \A i \in DOMAIN matrix :
               LET tid   == matrix[i].technique_id
                   items == Split(matrix[i].sourcetypes_csv, S_comma)
               IN  /\ matrix[i].count_sourcetypes = Cardinality(ContribOf(tid))
                   /\ Elems(items) = ContribOf(tid)
                   /\ StrictlyAscending(items)

\* two validated rows for T1078 with sourcetypes "A" and "B": one row, 2, "A,B"
C2_Witness ==
    /\ AggOk
    /\ Len(matrix) = 1
    /\ matrix[1].technique_id = S_T1078
    /\ matrix[1].count_sourcetypes = 2
    /\ matrix[1].sourcetypes_csv = <<65, 44, 66>>

\* sourcetypes that differ only in case are counted separately
C2_WitnessCase ==
    /\ AggOk
    /\ Len(matrix) = 1
    /\ matrix[1].count_sourcetypes = 2
    /\ matrix[1].sourcetypes_csv = <<65, 44, 97>>

\* layer L lists the techniques of coverage map cov, each scored by the
\* number of its contributors, under a gradient that ends at the top score
LayerOf(L, cov) ==
    /\ {L.techniques[i].techniqueID : i \in DOMAIN L.techniques} = DOMAIN cov
    /\ Len(L.techniques) = Cardinality(DOMAIN cov)
    /\ \A i \in DOMAIN L.techniques :
           L.techniques[i].score = Cardinality(cov[L.techniques[i].techniqueID])
    /\ \A i \in DOMAIN L.techniques : L.techniques[i].score <= L.maxValue
    /\ L.maxValue >= 1
    /\ L.techniques # <<>> =>
           \E i \in DOMAIN L.techniques : L.techniques[i].score = L.maxValue
    /\ DOMAIN cov = {} => L.techniques = <<>> /\ L.maxValue = 1

\* C3: every layer written gives each listed technique a score equal to the
\* number of its distinct contributors in the coverage map the layer is built
\* from; maxValue is the largest score of the layer and is at least 1; a layer
\* of an empty coverage map lists no technique and has maxValue 1.
C3_LayerScores ==
    AggDone =>
        /\ "overall" \in agg_written => LayerOf(layer_overall, by_tid)
        /\ \A p \in DOMAIN layers_plat : LayerOf(layers_plat[p], by_tid_plat[p])

\* a run that wrote a layer with top score 2 next to an empty layer
C3_Witness ==
    /\ AggOk
    /\ layer_overall.maxValue = 2
    /\ \E p \in DOMAIN layers_plat :
          layers_plat[p].techniques = <<>> /\ layers_plat[p].maxValue = 1
    /\ \E p \in DOMAIN layers_plat : layers_plat[p].maxValue = 2

NoRowAccepted == AcceptedRows = {}

\* an empty coverage matrix, an empty overall layer and seven empty
\* per-platform layers, each with maxValue 1
DegenerateOutputs ==
    /\ agg_written = {"matrix", "overall"}
    /\ matrix = <<>>
    /\ layer_overall.techniques = <<>> /\ layer_overall.maxValue = 1
    /\ DOMAIN layers_plat = PlatformSet
    /\ \A p \in DOMAIN layers_plat :
           layers_plat[p].techniques = <<>> /\ layers_plat[p].maxValue = 1

\* every row that names a technique carries a status cell
StatusCellsPresent ==
    \A i \in DOMAIN scaffold :
        (scaffold[i].technique_id # <<>> /\ scaffold[i].technique_id # None)
            => scaffold[i].status # None

PartitionExact ==
    \A p \in PlatformSet :
        /\ p \in DOMAIN by_tid_plat
        /\ DOMAIN by_tid_plat[p] = {tid \in AcceptedTids : ContribOfPlat(p, tid) # {}}
        /\ \A tid \in DOMAIN by_tid_plat[p] :
               by_tid_plat[p][tid] = ContribOfPlat(p, tid)

EightLayers ==
    /\ "overall" \in agg_written
    /\ DOMAIN layers_plat = PlatformSet
    /\ Cardinality(DOMAIN layers_plat) = 7

-----------------------------------------------------------------------------
(* The ordered rule list of the source categorizer, as a table *)

\* rule k of the list holds of the lowercased identifier st; broad adds the
\* prefixes "bro:" and "zeek:" to the network rule
RuleHolds(k, st, broad) ==
    CASE k = 1 -> StartsWith(st, P_aws_cloudtrail)
      [] k = 2 -> StartsWith(st, P_ms_o365) \/ Contains(st, P_o365) \/ StartsWith(st, P_ms_aad)
      [] k = 3 -> \/ StartsWith(st, P_cisco_asa) \/ StartsWith(st, P_stream)
                  \/ (broad /\ (StartsWith(st, P_bro) \/ StartsWith(st, P_zeek)))
      [] k = 4 -> StartsWith(st, P_symantec_ep) \/ StartsWith(st, P_osquery)
      [] k = 5 -> \/ StartsWith(st, P_unix) \/ StartsWith(st, P_linux_)
                  \/ (Contains(st, P_linux) /\ ~Contains(st, P_wineventlog))
      [] k = 6 -> \/ StartsWith(st, P_wineventlog) \/ StartsWith(st, P_xmlwineventlog)
                  \/ StartsWith(st, P_script) \/ StartsWith(st, P_perfmon)
      [] k = 7 -> TRUE

RuleCategory == <<S_cloud, S_saas, S_network, S_edr, S_linux, S_windows, S_other>>

\* the rules of the list that hold of the identifier
Matching(s, broad) == {k \in DOMAIN RuleCategory : RuleHolds(k, Lower(s), broad)}

\* the category of the first rule that holds
FirstMatch(s, broad) ==
    RuleCategory[CHOOSE k \in Matching(s, broad) : \A j \in Matching(s, broad) : k <= j]

\* C6: categorize is total and first-match-wins: for every identifier,
\* the empty one included, it returns one of the seven categories, namely the
\* category of the first rule of the fixed order cloud, saas, network, edr,
\* linux, windows, other that the lowercased identifier satisfies.
C6_CategorizeFirstMatch ==
    category # None =>
        /\ category \in PlatformSet
        /\ category = FirstMatch(ident, FALSE)

\* an identifier that satisfies the saas rule and the windows rule
\* ("WinEventLog:o365") has been categorized as saas
C6_Witness ==
    /\ category = S_saas
    /\ {2, 6} \subseteq Matching(ident, FALSE)
    /\ ident # Lower(ident)

\* the empty identifier has been categorized as other
C6_WitnessEmpty == ident = <<>> /\ category = S_other

\* C7: the platform guess_platform writes is the category the ordered rule
\* list, with bro:/zeek: added to the network rule, assigns to the
\* sourcetype; so it agrees with categorize on every identifier that does not
\* start with bro: or zeek:.
C7_GuessPlatformFollowsRuleList ==
    platform_guess # None =>
        /\ platform_guess = FirstMatch(ident, TRUE)
        /\ (~StartsWith(Lower(ident), P_bro) /\ ~StartsWith(Lower(ident), P_zeek))
               => platform_guess = categorize(ident)

-----------------------------------------------------------------------------
(* The technique catalog as the claims see it *)

BuildOk == build_pc = "exited" /\ build_exit = 0

IsDigit(c) == c \in 48..57

\* the part of s before its first "."
BeforeFirstDot(s) ==
    LET k == CHOOSE i \in DOMAIN s : s[i] = 46 /\ \A j \in 1..(i - 1) : s[j] # 46
    IN  SubSeq(s, 1, k - 1)

\* "T", digits, and optionally "." with three digits
OfficialId(s) ==
    /\ Len(s) >= 2
    /\ s[1] = 84
    /\ \/ \A i \in 2..Len(s) : IsDigit(s[i])
       \/ /\ Len(s) >= 6
          /\ s[Len(s) - 3] = 46
          /\ \A i \in 2..(Len(s) - 4) : IsDigit(s[i])
          /\ \A i \in (Len(s) - 2)..Len(s) : IsDigit(s[i])

CatalogIds == {master_rows[i].technique_id : i \in DOMAIN master_rows}

\* C8: every catalog row whose identifier contains "." is flagged as a
\* sub-technique, names as parent the part of the identifier before the
\* first ".", and that parent identifier is a row of the same catalog.
C8_ParentInCatalog ==
    BuildOk =>
        \A i \in DOMAIN master_rows :
            LET r == master_rows[i]
            IN  Contains(r.technique_id, S_dot) =>
                    /\ r.is_subtechnique = S_true
                    /\ r.parent_technique_id = BeforeFirstDot(r.technique_id)
                    /\ r.parent_technique_id \in CatalogIds

\* C9: every technique_id of the catalog is "T" followed by digits,
\* optionally followed by "." and three digits; a node whose identifier only
\* starts with "T" produces no row.
C9_OnlyOfficialIds ==
    BuildOk => \A i \in DOMAIN master_rows : OfficialId(master_rows[i].technique_id)

\* C10: no two rows of the technique catalog share a technique_id.
C10_UniqueIds ==
    BuildOk =>
        \A i, j \in DOMAIN master_rows :
            i # j => master_rows[i].technique_id # master_rows[j].technique_id

\* the node carries neither the revoked nor the deprecated flag
LiveNode(o) == ~o.revoked /\ ~o.x_mitre_deprecated

\* the (tactic_id, tactic_name) pairs of the tactic nodes that are live
LiveTacticPairs ==
    {TacticPair(objs[i]) :
        i \in {k \in DOMAIN objs : objs[k].type = "x-mitre-tactic" /\ LiveNode(objs[k])}}

\* C11: no row of the technique catalog and no row of the tactic order table
\* is derived from a node whose revoked or deprecated flag is set, so such
\* nodes never shift the ranks of the remaining tactics.
C11_NoRowFromRevokedOrDeprecated ==
    BuildOk =>
        /\ \A i \in DOMAIN master_rows :
               \E k \in DOMAIN objs :
                   /\ objs[k].type = "attack-pattern"
                   /\ LiveNode(objs[k])
                   /\ external_id(objs[k], "mitre-attack") = master_rows[i].technique_id
        /\ \A i \in DOMAIN tactic_rows :
               LET pair == <<tactic_rows[i].tactic_id, tactic_rows[i].tactic_name>>
               IN  /\ pair \in LiveTacticPairs
                   /\ tactic_rows[i].order
                          = Cardinality({q \in LiveTacticPairs : PairLess(q, pair)})

-----------------------------------------------------------------------------
(* File names derived from a sourcetype: the schema file name of             *)
(* generate_schemas_from_devices.py, the sample name written by              *)
(* all_samples.py and the sample name looked up by seed_mapping_scaffold.py  *)

MaxParts == 3

S_yaml == <<46, 121, 97, 109, 108>>                 \* ".yaml"
S_csv == <<46, 99, 115, 118>>                       \* ".csv"
S_underscore == <<95>>                              \* "_"
S_colon == <<58>>                                   \* ":"
S_slash == <<47>>                                   \* "/"
S_WinEventLog_ == <<87, 105, 110, 69, 118, 101, 110, 116, 76, 111, 103, 58>>   \* "WinEventLog:"
S_XmlWinEventLog_ == <<88, 109, 108>> \o S_WinEventLog_                        \* "XmlWinEventLog:"
S_Script_ == <<83, 99, 114, 105, 112, 116, 58>>     \* "Script:"
S_Perfmon == <<80, 101, 114, 102, 109, 111, 110>>   \* "Perfmon"
S_Security == <<83, 101, 99, 117, 114, 105, 116, 121>>   \* "Security"

\* str.replace(old, new): every non-overlapping occurrence, left to right
RECURSIVE Replace(_, _, _)
Replace(s, old, new) ==
    IF Len(s) < Len(old) THEN s
    ELSE IF SubSeq(s, 1, Len(old)) = old
         THEN new \o Replace(SubSeq(s, Len(old) + 1, Len(s)), old, new)
         ELSE <<s[1]>> \o Replace(Tail(s), old, new)

\* s without its longest prefix of characters of cls
RECURSIVE SkipRun(_, _)
SkipRun(s, cls) ==
    IF s # <<>> /\ s[1] \in cls THEN SkipRun(Tail(s), cls) ELSE s

\* re.sub("[cls]+", rep, s): every maximal run of characters of cls becomes rep
RECURSIVE ReSubRuns(_, _, _)
ReSubRuns(s, cls, rep) ==
    IF s = <<>> THEN <<>>
    ELSE IF s[1] \in cls
         THEN rep \o ReSubRuns(SkipRun(s, cls), cls, rep)
         ELSE <<s[1]>> \o ReSubRuns(Tail(s), cls, rep)

\* str.strip(chars): leading and trailing characters of cls removed
Strip(s, cls) ==
    LET keep == {i \in DOMAIN s : s[i] \notin cls}
    IN  IF keep = {} THEN <<>>
        ELSE SubSeq(s, CHOOSE i \in keep : \A j \in keep : i <= j,
                       CHOOSE i \in keep : \A j \in keep : j <= i)

\* the ASCII characters matched by \s, and by str.strip() without argument
Whitespace == {9, 10, 11, 12, 13, 32}

\* [^A-Za-z0-9._-] on the ASCII range
NotNameChar == (0..127) \ ((65..90) \cup (97..122) \cup (48..57) \cup {46, 95, 45})

\* [:/\\s] as all_samples.py writes it in a raw string: ':', '/', a backslash
\* and the letter 's'
SplitterClass == {58, 47, 92, 115}

\* [:/\\\s] as seed_mapping_scaffold.py writes it: ':', '/', a backslash and \s
SanitizeClass == {58, 47, 92} \cup Whitespace

\* generate_schemas_from_devices.filename_for_sourcetype
filename_for_sourcetype(sourcetype) ==
    LET n1 == Replace(sourcetype, S_WinEventLog_, P_wineventlog \o S_underscore)
        n2 == Replace(n1, S_XmlWinEventLog_, P_xmlwineventlog \o S_underscore)
        n3 == Replace(n2, S_Script_, <<115, 99, 114, 105, 112, 116, 95>>)
        n4 == Replace(n3, S_Perfmon, P_perfmon)
        n5 == Replace(Replace(n4, S_colon, S_underscore), S_slash, S_underscore)
        n6 == Lower(Strip(ReSubRuns(n5, NotNameChar, S_underscore), {95}))
    IN  n6 \o S_yaml

\* seed_mapping_scaffold.sanitize
sanitize(st) == Strip(ReSubRuns(st, SanitizeClass, S_underscore), {95})

\* all_samples.sanitize_filename
sanitize_filename(sourcetype) ==
    ReSubRuns(sourcetype, SplitterClass, S_underscore) \o S_csv

\* the pieces a sourcetype is typed from
NameParts ==
    { <<97>>, <<98>>, S_colon, S_slash, S_colon \o S_slash, <<32>>, S_underscore,
      S_WinEventLog_, S_Security, P_cisco_asa }

NameInit == NameStart("input") /\ OthersIdle({"agg", "cat", "build", "gen", "seed"})

\* one more piece of the sourcetype, while no name has been derived from it
AppendPart ==
    /\ nm_pc = "input"
    /\ nm_parts < MaxParts
    /\ \E p \in NameParts : nm_ident' = nm_ident \o p
    /\ nm_parts' = nm_parts + 1
    /\ UNCHANGED <<nm_pc, yaml_name, sample_written, sample_lookup>>
    /\ UNCHANGED <<aggVars, catVars, buildVars, genVars, seedVars>>

\* generate_schemas_from_devices.main names the schema file of the sourcetype
DeriveYamlName ==
    /\ nm_pc \in {"input", "named"}
    /\ yaml_name = None
    /\ yaml_name' = filename_for_sourcetype(nm_ident)
    /\ nm_pc' = "named"
    /\ UNCHANGED <<nm_ident, nm_parts, sample_written, sample_lookup>>
    /\ UNCHANGED <<aggVars, catVars, buildVars, genVars, seedVars>>

\* all_samples.py names the sample it writes for the sourcetype group
WriteSample ==
    /\ nm_pc \in {"input", "named"}
    /\ sample_written = None
    /\ sample_written' = sanitize_filename(nm_ident)
    /\ nm_pc' = "named"
    /\ UNCHANGED <<nm_ident, nm_parts, yaml_name, sample_lookup>>
    /\ UNCHANGED <<aggVars, catVars, buildVars, genVars, seedVars>>

\* seed_mapping_scaffold.main names the sample it looks up for the device row
LookupSample ==
    /\ nm_pc \in {"input", "named"}
    /\ sample_lookup = None
    /\ Strip(nm_ident, Whitespace) # <<>>
    /\ sample_lookup' = sanitize(Strip(nm_ident, Whitespace)) \o S_csv
    /\ nm_pc' = "named"
    /\ UNCHANGED <<nm_ident, nm_parts, yaml_name, sample_written>>
    /\ UNCHANGED <<aggVars, catVars, buildVars, genVars, seedVars>>

NameNext == AppendPart \/ DeriveYamlName \/ WriteSample \/ LookupSample

SpecName == NameInit /\ [][NameNext]_vars

\* the name without its extension
Stem(name, ext) == SubSeq(name, 1, Len(name) - Len(ext))

\* C12: the schema file name derived from an identifier is lowercase, has no
\* leading or trailing underscore before the extension, turns every run of
\* special characters into one underscore (so an identifier without
\* underscores never yields two in a row), and "WinEventLog:Security" yields
\* "wineventlog_security"
C12_YamlNameCollapsesRuns ==
    yaml_name # None =>
        LET stem == Stem(yaml_name, S_yaml)
        IN  /\ SubSeq(yaml_name, Len(stem) + 1, Len(yaml_name)) = S_yaml
            /\ stem = Lower(stem)
            /\ stem # <<>> => (stem[1] # 95 /\ stem[Len(stem)] # 95)
            /\ ~Contains(nm_ident, S_underscore)
                   => ~Contains(stem, S_underscore \o S_underscore)
            /\ nm_ident = S_WinEventLog_ \o S_Security
                   => Contains(stem, P_wineventlog \o S_underscore \o Lower(S_Security))

\* C15: the sample name the splitter writes for a sourcetype is the name the
\* scaffold builder looks up for it
C15_WriterAndReaderAgree ==
    (sample_written # None /\ sample_lookup # None) => sample_written = sample_lookup

-----------------------------------------------------------------------------
(* generate_schemas_from_devices.py and validate_inventory.py reading        *)
(* inventory/devices.csv                                                     *)

MaxDevices == 2

S_linux_secure == P_linux_ \o <<115, 101, 99, 117, 114, 101>>       \* "linux_secure"

\* the sourcetype cells a devices.csv row can hold ("" for a blank cell)
DeviceSourcetypes ==
    { <<>>, <<32>>, <<97>>, <<32, 97>>, P_cisco_asa, P_aws_cloudtrail,
      S_WinEventLog_ \o S_Security, S_linux_secure }

GenInit == GenStart("input") /\ OthersIdle({"agg", "cat", "build", "name", "seed"})

\* one more row of devices.csv; without a sourcetype column the row has no
\* such cell, and an unreadable file has no rows to give
AddDevice ==
    /\ gen_pc = "input"
    /\ val_pc = "input"
    /\ dev_file # "unreadable"
    /\ Len(dev_sourcetypes) < MaxDevices
    /\ \E c \in (IF dev_file = "ok" THEN DeviceSourcetypes ELSE {None}) :
           dev_sourcetypes' = Append(dev_sourcetypes, c)
    /\ UNCHANGED <<dev_file, gen_pc, gen_exit, gen_files, val_pc, val_exit, val_result>>
    /\ UNCHANGED <<aggVars, catVars, buildVars, nameVars, seedVars>>

\* generate_schemas_from_devices.main, from argument parsing to exit
GenerateSchemasMain ==
    /\ gen_pc = "input"
    /\ gen_pc' = "exited"
    /\ IF dev_file \in {"unreadable", "nocolumn"}
       THEN /\ gen_exit' = 1
            /\ gen_files' = {}
       ELSE /\ gen_exit' = 0
            /\ gen_files' = {<<categorize(st), filename_for_sourcetype(st)>> :
                                 st \in {dev_sourcetypes[i] : i \in DOMAIN dev_sourcetypes}}
    /\ UNCHANGED <<dev_file, dev_sourcetypes, val_pc, val_exit, val_result>>
    /\ UNCHANGED <<aggVars, catVars, buildVars, nameVars, seedVars>>

\* validate_inventory.py, the whole script: an open() that raises ends it with
\* a traceback and exit code 1, anything else with [RESULT] and exit code 0
ValidateInventory ==
    /\ val_pc = "input"
    /\ val_pc' = "exited"
    /\ IF dev_file = "unreadable"
       THEN /\ val_exit' = 1
            /\ val_result' = ""
       ELSE /\ val_exit' = 0
            /\ val_result' =
                   IF /\ dev_file = "ok"
                      /\ \A i \in DOMAIN dev_sourcetypes : Truthy(dev_sourcetypes[i])
                   THEN "PASS" ELSE "FAIL"
    /\ UNCHANGED <<dev_file, dev_sourcetypes, gen_pc, gen_exit, gen_files>>
    /\ UNCHANGED <<aggVars, catVars, buildVars, nameVars, seedVars>>

GenNext == AddDevice \/ GenerateSchemasMain \/ ValidateInventory

SpecGen == GenInit /\ [][GenNext]_vars

\* devices.csv cannot be read, or lacks the required column
FatalInput == dev_file \in {"unreadable", "nocolumn"}

\* C13: a stage that meets a fatal input error (devices.csv unreadable, or its
\* required column or header missing) ends with exit code 2 and has written no
\* file; a stage whose input is readable, well-formed and non-empty ends with
\* exit code 0, validation failures included
C13_FatalInputExitsTwo ==
    /\ gen_pc = "exited" =>
           /\ FatalInput => (gen_exit = 2 /\ gen_files = {})
           /\ (~FatalInput /\ dev_sourcetypes # <<>>) => gen_exit = 0
    /\ val_pc = "exited" =>
           /\ FatalInput => val_exit = 2
           /\ (~FatalInput /\ dev_sourcetypes # <<>>) => val_exit = 0

-----------------------------------------------------------------------------
(* seed_mapping_scaffold.py: one scaffold row per sourcetype of the          *)
(* inventory, and the aggregator run on the scaffold it wrote                *)

\* "T" and the four digits of n: the identifier of technique n
Tid(n) ==
    <<84, 48 + (n \div 1000), 48 + ((n \div 100) % 10), 48 + ((n \div 10) % 10), 48 + (n % 10)>>

S_sysmon == <<115, 121, 115, 109, 111, 110>>   \* "sysmon"
S_wineventlog_security == <<119, 105, 110, 101, 118, 101, 110, 116, 108, 111, 103, 58, 115, 101, 99, 117, 114, 105, 116, 121>>   \* "wineventlog:security"
S_aad == <<97, 97, 100>>   \* "aad"
S_signin == <<115, 105, 103, 110, 105, 110>>   \* "signin"
S_management == <<109, 97, 110, 97, 103, 101, 109, 101, 110, 116>>   \* "management"
S_suggested == <<115, 117, 103, 103, 101, 115, 116, 101, 100, 58, 32>>   \* "suggested: "
S_candidate == <<99, 97, 110, 100, 105, 100, 97, 116, 101>>   \* "candidate"
S_low == <<108, 111, 119>>   \* "low"
S_samples_root == <<105, 110, 118, 101, 110, 116, 111, 114, 121, 47, 115, 97, 109, 112, 108, 101, 115, 47>>   \* "inventory/samples/"
S_main == <<109, 97, 105, 110>>   \* "main"

\* "aws:cloudtrail:aad:signin", which two hint rules match
S_aws_aad_signin == P_aws_cloudtrail \o S_colon \o S_aad \o S_colon \o S_signin

\* the hints list of main() for the lower-cased sourcetype s, before sorting
Hints(s) ==
    (IF StartsWith(s, P_aws_cloudtrail)
     THEN <<S_T1078, Tid(1098), Tid(1484), Tid(1110)>> ELSE <<>>)
    \o (IF Contains(s, S_sysmon)
        THEN <<S_T1059, Tid(1003) \o <<46, 48, 48, 49>>, Tid(1105), Tid(1047), Tid(1041)>> ELSE <<>>)
    \o (IF Contains(s, S_wineventlog_security)
        THEN <<S_T1078, Tid(1110), Tid(1053), Tid(1543)>> ELSE <<>>)
    \o (IF StartsWith(s, P_cisco_asa)
        THEN <<Tid(1046), Tid(1110), Tid(1071)>> ELSE <<>>)
    \o (IF Contains(s, S_aad) /\ Contains(s, S_signin)
        THEN <<S_T1078, Tid(1098), Tid(1110)>> ELSE <<>>)
    \o (IF Contains(s, P_o365) /\ Contains(s, S_management)
        THEN <<Tid(1114), Tid(1098)>> ELSE <<>>)

\* the notes cell: "suggested: " and ",".join(sorted(set(hints))) under
\* --auto-hints when a rule matched, otherwise blank
Notes(st, hints_on) ==
    LET hints == Hints(Lower(st))
    IN  IF hints_on /\ hints # <<>>
        THEN S_suggested \o Join(S_comma, SortedStrings({hints[i] : i \in DOMAIN hints}))
        ELSE <<>>

\* a row that takes its first hint as the technique and is marked ready
SeedRow_FirstHintAssigned(st, idx, hints_on, samples) ==
    LET hints == Hints(Lower(st))
    IN  [technique_id |-> IF hints_on /\ hints # <<>> THEN hints[1] ELSE <<>>,
         technique_name |-> <<>>,
         tactics_csv |-> <<>>,
         platform |-> guess_platform(st),
         sourcetype |-> st,
         index |-> idx,
         key_fields_csv |-> <<>>,
         example_sample |-> <<>>,
         confidence |-> S_low,
         status |-> IF hints_on /\ hints # <<>> THEN S_ready ELSE S_candidate,
         notes |-> Notes(st, hints_on)]

\* the row main() appends for the stripped sourcetype st; inventory/schemas
\* holds no schema naming st, so key_fields_csv is blank
SeedRow(st, idx, hints_on, samples) ==
    [technique_id |-> <<>>,
     technique_name |-> <<>>,
     tactics_csv |-> <<>>,
     platform |-> guess_platform(st),
     sourcetype |-> st,
     index |-> idx,
     key_fields_csv |-> <<>>,
     example_sample |-> IF (sanitize(st) \o S_csv) \in samples
                        THEN S_samples_root \o sanitize(st) \o S_csv
                        ELSE <<>>,
     confidence |-> S_low,
     status |-> S_candidate,
     notes |-> Notes(st, hints_on)]

\* read_devices keeps the rows whose sourcetype cell is not blank
HasSourcetype(d) == Truthy(d.sourcetype)

\* the loop of main() over devs from position i on, with the sourcetypes seen
\* and the rows collected so far
RECURSIVE SeedRows(_, _, _, _, _, _)
SeedRows(devs, i, seen, out, hints_on, samples) ==
    IF i > Len(devs) THEN out
    ELSE LET st  == Strip(devs[i].sourcetype, Whitespace)
             idx == Strip(IF Truthy(devs[i].index) THEN devs[i].index ELSE <<>>, Whitespace)
         IN  IF st = <<>> \/ st \in seen
             THEN SeedRows(devs, i + 1, seen, out, hints_on, samples)
             ELSE SeedRows(devs, i + 1, seen \cup {st},
                           Append(out, SeedRow(st, idx, hints_on, samples)),
                           hints_on, samples)

\* a row of mapping_scaffold.csv as the aggregator reads it
ScaffoldColumns(r) ==
    [technique_id |-> r.technique_id, sourcetype |-> r.sourcetype,
     platform |-> r.platform, status |-> r.status]

\* the rows of inventory/devices.csv
InventoryRows ==
    [sourcetype : { <<>>, <<32>>, <<97>>, <<32, 97>>, P_cisco_asa,
                    S_WinEventLog_ \o S_Security, S_aws_aad_signin },
     index : { <<>>, S_main }]

SeedInit == SeedStart("input") /\ OthersIdle({"agg", "cat", "build", "name", "gen"})

\* one more row of inventory/devices.csv
AddInventoryRow ==
    /\ seed_pc = "input"
    /\ Len(devices) < MaxDevices
    /\ \E d \in InventoryRows : devices' = Append(devices, d)
    /\ UNCHANGED <<auto_hints, samples_dir, seed_pc, seed_exit, seed_rows>>
    /\ UNCHANGED <<aggVars, catVars, buildVars, nameVars, genVars>>

\* seed_mapping_scaffold.main, from read_devices to the written scaffold,
\* which the aggregator can then be run on
SeedMain ==
    /\ seed_pc = "input"
    /\ seed_pc' = "exited"
    /\ UNCHANGED <<devices, auto_hints, samples_dir>>
    /\ UNCHANGED <<catVars, buildVars, nameVars, genVars>>
    /\ UNCHANGED <<agg_exit, agg_warned, by_tid, by_tid_plat, agg_written,
                   matrix, layer_overall, layers_plat>>
    /\ LET devs == SelectSeq(devices, HasSourcetype)
       IN  IF devs = <<>>
           THEN \* "[ERROR] No rows"; sys.exit(2)
                /\ seed_exit' = 2
                /\ UNCHANGED <<seed_rows, scaffold, agg_pc>>
           ELSE LET out_rows == SeedRows(devs, 1, {}, <<>>, auto_hints, samples_dir)
                IN  /\ seed_exit' = 0
                    /\ seed_rows' = out_rows
                    /\ scaffold' = [i \in DOMAIN out_rows |-> ScaffoldColumns(out_rows[i])]
                    /\ agg_pc' = "input"

SeedNext == AddInventoryRow \/ SeedMain \/ AggregatorMain

SpecSeed == SeedInit /\ [][SeedNext]_vars

SeedOk == seed_pc = "exited" /\ seed_exit = 0

\* the distinct non-blank stripped sourcetypes of the inventory
DistinctStripped ==
    {Strip(devices[i].sourcetype, Whitespace) : i \in DOMAIN devices} \ {<<>>}

\* the identifiers listed after "suggested: " in a notes cell
HintList(notes) == Split(SubSeq(notes, Len(S_suggested) + 1, Len(notes)), S_comma)

\* a notes cell is blank, or (under --auto-hints only) "suggested: " followed
\* by the hints of the row's sourcetype in ascending order without repeats
NotesWellFormed(r) ==
    \/ r.notes = <<>>
    \/ /\ auto_hints
       /\ StartsWith(r.notes, S_suggested)
       /\ StrictlyAscending(HintList(r.notes))
       /\ Elems(HintList(r.notes)) = Elems(Hints(Lower(r.sourcetype)))

\* no row carries a technique or a curation status
RowsUncurated ==
    \A i \in DOMAIN seed_rows :
        /\ seed_rows[i].technique_id = <<>>
        /\ seed_rows[i].status = S_candidate
        /\ NotesWellFormed(seed_rows[i])

OneRowPerSourcetype ==
    /\ {seed_rows[i].sourcetype : i \in DOMAIN seed_rows} = DistinctStripped
    /\ Len(seed_rows) = Cardinality(DistinctStripped)

\* the aggregator succeeded with an empty matrix and layers without techniques
EmptyCoverage ==
    /\ agg_exit = 0
    /\ "matrix" \in agg_written
    /\ matrix = <<>>
    /\ EightLayers
    /\ layer_overall.techniques = <<>>
    /\ \A p \in DOMAIN layers_plat : layers_plat[p].techniques = <<>>

\* C14 as stated: every row the scaffold builder emits has a blank
\* technique_id, status "candidate" and hints only in notes (sorted, without
\* repeats), there is one row per distinct stripped sourcetype, and the
\* aggregator run on that scaffold yields an empty matrix and empty layers
C14_UncuratedScaffoldGivesEmptyCoverage ==
    SeedOk =>
        /\ RowsUncurated
        /\ OneRowPerSourcetype
        /\ AggDone => EmptyCoverage

\* C14 amended: the same, with the empty coverage only for a scaffold that has
\* at least one row; on a scaffold without rows (every sourcetype of the
\* inventory blank after stripping) the aggregator exits with code 2 and
\* writes nothing
C14_UncuratedNonEmptyScaffoldGivesEmptyCoverage ==
    SeedOk =>
        /\ RowsUncurated
        /\ OneRowPerSourcetype
        /\ (AggDone /\ seed_rows # <<>>) => EmptyCoverage
        /\ (AggDone /\ seed_rows = <<>>) => (agg_exit = 2 /\ agg_written = {})

\* --auto-hints, two inventory rows of one sourcetype whose hints repeat a
\* technique, one scaffold row with the hints in notes, aggregator run on it
C14_Witness ==
    /\ SeedOk
    /\ AggOk
    /\ auto_hints
    /\ Len(devices) = 2
    /\ \A i \in DOMAIN devices : Strip(devices[i].sourcetype, Whitespace) # <<>>
    /\ Len(seed_rows) = 1
    /\ seed_rows[1].notes # <<>>
    /\ Len(Hints(Lower(seed_rows[1].sourcetype))) > Len(HintList(seed_rows[1].notes))
    /\ matrix = <<>>

=============================================================================
